---- MODULE Spec2Model ----
(***************************************************************************)
(* Amber Palace booking portal (streamlit_app.py): the price calculator,   *)
(* the form validators, the bookings table with its UNIQUE reference       *)
(* column, the booking submit handler, the lookup handler and the admin    *)
(* listing, with several browser sessions running the script against one   *)
(* SQLite file.                                                            *)
(*                                                                         *)
(* Text typed by a user is a sequence of one-character strings, so that    *)
(* strip(), lower() and the two regular expressions are computed character *)
(* by character; the characters are ASCII. Dates are day numbers counted   *)
(* from date.today() = 0; the table stores them as ISO text, which orders  *)
(* as the dates do.                                                        *)
(***************************************************************************)
EXTENDS Integers, Sequences, FiniteSets, TLC

VARIABLES
  store,    \* the bookings table, rows in id order (row i has id i)
  now,      \* the wall clock read by pd.Timestamp.now()
  pc,       \* per session: "idle", or "create" between building the record and create_booking
  form,     \* per session: the values of the booking form's widgets
  record,   \* per session: the record dict built by the submit handler
  view,     \* the last rendering of a handler's result, and the session it was in
  calc      \* a call of calc_price: its arguments and what it returned

vars == <<store, now, pc, form, record, view, calc>>

----------------------------------------------------------------------------
(* Bounds of the model *)

\* the bookings table is filled up to this many rows
MaxRows == 2
\* the date pickers offer the days today .. today + MaxDay
MaxDay == 3
\* the wall clock runs from 0 to MaxTime
MaxTime == 1
\* calc_price is called on its own with nights from -NightsBelow to MaxNights
NightsBelow == 2
MaxNights == 3

\* st.number_input("Guests *", min_value=1, max_value=8)
MinGuests == 1
MaxGuests == 8

----------------------------------------------------------------------------
(* Text *)

\* the control characters that have no escape in a string: vertical tab
\* (0x0b) and the file, group, record and unit separators (0x1c .. 0x1f)
VT == ""
FS == ""
GS == ""
RS == ""
US == ""

\* the ASCII characters that \s of a str pattern matches and str.strip() removes
Whitespace == {" ", "\t", "\n", "\r", "\f", VT, FS, GS, RS, US}
Digits == {"0", "1", "2", "3", "4", "5", "6", "7", "8", "9"}
UpperCase == <<"A","B","C","D","E","F","G","H","I","J","K","L","M",
               "N","O","P","Q","R","S","T","U","V","W","X","Y","Z">>
LowerCase == <<"a","b","c","d","e","f","g","h","i","j","k","l","m",
               "n","o","p","q","r","s","t","u","v","w","x","y","z">>

\* str.lower() on one character
LowerChar(c) ==
  IF \E i \in 1..Len(UpperCase) : UpperCase[i] = c
  THEN LowerCase[CHOOSE i \in 1..Len(UpperCase) : UpperCase[i] = c]
  ELSE c

\* str.upper() on one character
UpperChar(c) ==
  IF \E i \in 1..Len(LowerCase) : LowerCase[i] = c
  THEN UpperCase[CHOOSE i \in 1..Len(LowerCase) : LowerCase[i] = c]
  ELSE c

\* str.upper()
Upper(s) == [i \in 1..Len(s) |-> UpperChar(s[i])]

\* str.lower()
Lower(s) == [i \in 1..Len(s) |-> LowerChar(s[i])]

\* str.lstrip(), str.rstrip(), str.strip()
RECURSIVE LStrip(_)
LStrip(s) == IF s # <<>> /\ Head(s) \in Whitespace THEN LStrip(Tail(s)) ELSE s
RECURSIVE RStrip(_)
RStrip(s) ==
  IF s # <<>> /\ s[Len(s)] \in Whitespace THEN RStrip(SubSeq(s, 1, Len(s) - 1)) ELSE s
Strip(s) == LStrip(RStrip(s))

\* the strings t for which a pattern ending in $ is tried against s: the whole
\* of s, and s without its last character when that is a newline
BeforeDollar(s) ==
  {s} \cup (IF s # <<>> /\ s[Len(s)] = "\n" THEN {SubSeq(s, 1, Len(s) - 1)} ELSE {})

\* [^@\s]+ matches the whole of t
NoAtNoSpace(t) == t # <<>> /\ \A i \in 1..Len(t) : t[i] # "@" /\ t[i] \notin Whitespace

\* ^[^@\s]+@[^@\s]+\.[^@\s]+ matches the whole of t
EmailShape(t) ==
  \E a \in 1..Len(t) : \E d \in 1..Len(t) :
     /\ t[a] = "@"
     /\ t[d] = "."
     /\ a < d
     /\ NoAtNoSpace(SubSeq(t, 1, a - 1))
     /\ NoAtNoSpace(SubSeq(t, a + 1, d - 1))
     /\ NoAtNoSpace(SubSeq(t, d + 1, Len(t)))

valid_email(x) == \E t \in BeforeDollar(x) : EmailShape(t)

\* [0-9\-\+\s]{7,15} matches the whole of t
PhoneShape(t) ==
  /\ Len(t) >= 7
  /\ Len(t) <= 15
  /\ \A i \in 1..Len(t) : t[i] \in Digits \cup {"-", "+"} \cup Whitespace

valid_phone(x) == \E t \in BeforeDollar(x) : PhoneShape(t)

----------------------------------------------------------------------------
(* Catalog and pricing *)

PACKAGES == [Eco |-> [name |-> "Eco", per_night |-> 7500],
             Prime |-> [name |-> "Prime", per_night |-> 10000]]
PackageNames == DOMAIN PACKAGES

AddOnNames == {"Airport Pickup (One-way)", "Temple Darshan Guide"}
ADD_ONS == [a \in AddOnNames |-> 0]

\* TAX_RATE = 0.12, in percent
TAX_RATE_PCT == 12

Max(a, b) == IF a >= b THEN a ELSE b

nights_between(d1, d2) == Max(d2 - d1, 0)

\* round(num / den) as Python rounds a float: to nearest, a tie to the even
\* neighbour (num >= 0, den > 0)
RoundHalfEven(num, den) ==
  LET q == num \div den
      r == num % den
  IN  IF 2 * r < den THEN q
      ELSE IF 2 * r > den THEN q + 1
      ELSE IF q % 2 = 0 THEN q ELSE q + 1

RECURSIVE AddCost(_, _, _)
AddCost(addons, guests, nights) ==
  IF addons = <<>> THEN 0
  ELSE (IF Head(addons) = "Breakfast Buffet (per guest per night)"
        THEN ADD_ONS[Head(addons)] * guests * Max(nights, 1)
        ELSE ADD_ONS[Head(addons)])
       + AddCost(Tail(addons), guests, nights)

\* calc_price charging the room per guest
calc_price_perguest(pkg_name, nights, guests, addons) ==
  LET subtotal == PACKAGES[pkg_name].per_night * Max(nights, 1) * guests
                  + AddCost(addons, guests, nights)
      tax == RoundHalfEven(subtotal * TAX_RATE_PCT, 100)
  IN  [subtotal |-> subtotal, tax |-> tax, total |-> subtotal + tax]

\* calc_price without max(nights, 1)
calc_price_noclamp(pkg_name, nights, guests, addons) ==
  LET subtotal == PACKAGES[pkg_name].per_night * nights + AddCost(addons, guests, nights)
      tax == RoundHalfEven(subtotal * TAX_RATE_PCT, 100)
  IN  [subtotal |-> subtotal, tax |-> tax, total |-> subtotal + tax]

calc_price(pkg_name, nights, guests, addons) ==
  LET room_cost == PACKAGES[pkg_name].per_night * Max(nights, 1)
      add_cost == AddCost(addons, guests, nights)
      subtotal == room_cost + add_cost
      tax == RoundHalfEven(subtotal * TAX_RATE_PCT, 100)
      total == subtotal + tax
  IN  [subtotal |-> subtotal, tax |-> tax, total |-> total]

----------------------------------------------------------------------------
(* The bookings table *)

\* ", ".join(addons)
RECURSIVE Join(_)
Join(addons) ==
  IF addons = <<>> THEN ""
  ELSE IF Len(addons) = 1 THEN Head(addons)
  ELSE Head(addons) \o ", " \o Join(Tail(addons))

\* the row INSERT adds for kwargs: AUTOINCREMENT gives the next id, the add-ons
\* are stored as one joined text
NewRow(db, kwargs) ==
  [id |-> Len(db) + 1,
   created_at |-> kwargs.created_at,
   ref |-> kwargs.ref,
   name |-> kwargs.name,
   email |-> kwargs.email,
   phone |-> kwargs.phone,
   package |-> kwargs.package,
   check_in |-> kwargs.check_in,
   check_out |-> kwargs.check_out,
   nights |-> kwargs.nights,
   guests |-> kwargs.guests,
   addons |-> Join(kwargs.addons),
   subtotal |-> kwargs.subtotal,
   tax |-> kwargs.tax,
   total |-> kwargs.total,
   pay_option |-> kwargs.pay_option,
   pay_status |-> kwargs.pay_status,
   notes |-> kwargs.notes]

\* create_booking on a table whose ref column is not UNIQUE
create_booking_nounique(db, kwargs, io_ok) ==
  IF ~io_ok THEN [db |-> db, exc |-> "OperationalError"]
  ELSE [db |-> Append(db, NewRow(db, kwargs)), exc |-> ""]

\* create_booking with INSERT OR REPLACE: a row with the same ref is overwritten
create_booking_replace(db, kwargs, io_ok) ==
  IF ~io_ok THEN [db |-> db, exc |-> "OperationalError"]
  ELSE IF \E i \in 1..Len(db) : db[i].ref = kwargs.ref
       THEN LET i == CHOOSE k \in 1..Len(db) : db[k].ref = kwargs.ref
            IN  [db |-> [db EXCEPT ![i] = [NewRow(db, kwargs) EXCEPT !.id = i]], exc |-> ""]
       ELSE [db |-> Append(db, NewRow(db, kwargs)), exc |-> ""]

\* create_booking on table db: the table afterwards and the exception raised
\* ("" for none). io_ok = FALSE is SQLite failing to open, write or commit
\* (sqlite3.OperationalError); ref is UNIQUE, so a row with a reference that
\* is in the table raises sqlite3.IntegrityError. The connection's context
\* manager rolls back on an exception: the table is as before.
create_booking(db, kwargs, io_ok) ==
  IF ~io_ok THEN [db |-> db, exc |-> "OperationalError"]
  ELSE IF \E i \in 1..Len(db) : db[i].ref = kwargs.ref
       THEN [db |-> db, exc |-> "IntegrityError"]
       ELSE [db |-> Append(db, NewRow(db, kwargs)), exc |-> ""]

\* find_booking's None
NoRow == [id |-> 0]

\* find_booking with ORDER BY id ASC
find_booking_oldest(db, email, ref) ==
  LET hits == {i \in 1..Len(db) :
                 /\ db[i].email = email
                 /\ (ref # <<>> => db[i].ref = ref)}
  IN  IF hits = {} THEN NoRow
      ELSE db[CHOOSE i \in hits : \A j \in hits : i <= j]

\* find_booking: ref = <<>> is the falsy ref (None or ""); ORDER BY id DESC LIMIT 1
find_booking(db, email, ref) ==
  LET hits == {i \in 1..Len(db) :
                 /\ db[i].email = email
                 /\ (ref # <<>> => db[i].ref = ref)}
  IN  IF hits = {} THEN NoRow
      ELSE db[CHOOSE i \in hits : \A j \in hits : j <= i]

\* SELECT * FROM bookings ORDER BY id DESC
RECURSIVE Reverse(_)
Reverse(q) == IF q = <<>> THEN <<>> ELSE Append(Reverse(Tail(q)), Head(q))

----------------------------------------------------------------------------
(* The booking form and its submit handler *)

Sessions == {"s1", "s2"}

\* pay_option.startswith("Pay Later")
StartsWithPayLater(o) == o = "Pay Later (reserve now)"

\* the widgets' values before the user touches them: Eco is the default
\* selected package, check-in tomorrow, check-out the day after
DefaultForm ==
  [name |-> <<>>, email |-> <<>>, phone |-> <<>>, package |-> "Eco", guests |-> 2,
   check_in |-> 1, check_out |-> 2, addons |-> <<>>,
   pay_option |-> "Pay Later (reserve now)", notes |-> <<>>, agree |-> FALSE]

ErrName == "Name is required."
ErrEmail == "A valid email is required."
ErrPhone == "A valid phone is required."
\* (the source writes both hyphens of this message as U+2011)
ErrDates == "Check-out must be after check-in."
ErrAgree == "You must accept the terms."

\* the submit handler stopping at the first failing check
Errors_firstonly(f) ==
  IF Strip(f.name) = <<>> THEN <<ErrName>>
  ELSE IF ~valid_email(f.email) THEN <<ErrEmail>>
  ELSE IF ~valid_phone(f.phone) THEN <<ErrPhone>>
  ELSE IF nights_between(f.check_in, f.check_out) <= 0 THEN <<ErrDates>>
  ELSE IF ~f.agree THEN <<ErrAgree>>
  ELSE <<>>

\* the errors list of the submit handler, in the order the checks run
Errors(f) ==
  LET nights == nights_between(f.check_in, f.check_out)
  IN  (IF Strip(f.name) = <<>> THEN <<ErrName>> ELSE <<>>)
      \o (IF ~valid_email(f.email) THEN <<ErrEmail>> ELSE <<>>)
      \o (IF ~valid_phone(f.phone) THEN <<ErrPhone>> ELSE <<>>)
      \o (IF nights <= 0 THEN <<ErrDates>> ELSE <<>>)
      \o (IF ~f.agree THEN <<ErrAgree>> ELSE <<>>)

\* today.strftime('%y%m%d') for the sample day 2025-01-05
TodayYYMMDD == <<"2", "5", "0", "1", "0", "5">>

\* f"AP-{today.strftime('%y%m%d')}-{str(uuid.uuid4())[:8].upper()}"
MakeRef(uuid8) == <<"A", "P", "-">> \o TodayYYMMDD \o <<"-">> \o Upper(uuid8)

\* the record dict with the email stripped but not lowercased
BuildRecord_nolower(f, uuid8, t) ==
  LET nights == nights_between(f.check_in, f.check_out)
      price == calc_price(f.package, IF nights = 0 THEN 1 ELSE nights, f.guests, f.addons)
  IN  [created_at |-> t,
       ref |-> MakeRef(uuid8),
       name |-> Strip(f.name),
       email |-> Strip(f.email),
       phone |-> Strip(f.phone),
       package |-> f.package,
       check_in |-> f.check_in,
       check_out |-> f.check_out,
       nights |-> Max(nights, 1),
       guests |-> f.guests,
       addons |-> f.addons,
       subtotal |-> price.subtotal,
       tax |-> price.tax,
       total |-> price.total,
       pay_option |-> IF StartsWithPayLater(f.pay_option) THEN "Pay Later" ELSE "Paid (test)",
       pay_status |-> IF StartsWithPayLater(f.pay_option) THEN "Pay Later" ELSE "Paid",
       notes |-> Strip(f.notes)]

\* the record dict: the price is the live preview's, computed from nights or 1
BuildRecord(f, uuid8, t) ==
  LET nights == nights_between(f.check_in, f.check_out)
      price == calc_price(f.package, IF nights = 0 THEN 1 ELSE nights, f.guests, f.addons)
  IN  [created_at |-> t,
       ref |-> MakeRef(uuid8),
       name |-> Strip(f.name),
       email |-> Lower(Strip(f.email)),
       phone |-> Strip(f.phone),
       package |-> f.package,
       check_in |-> f.check_in,
       check_out |-> f.check_out,
       nights |-> Max(nights, 1),
       guests |-> f.guests,
       addons |-> f.addons,
       subtotal |-> price.subtotal,
       tax |-> price.tax,
       total |-> price.total,
       pay_option |-> IF StartsWithPayLater(f.pay_option) THEN "Pay Later" ELSE "Paid (test)",
       pay_status |-> IF StartsWithPayLater(f.pay_option) THEN "Pay Later" ELSE "Paid",
       notes |-> Strip(f.notes)]

NoRecord == [ref |-> <<>>]

\* nothing rendered
NoView ==
  [session |-> "", op |-> "none", status |-> "", errors |-> <<>>, ref |-> <<>>, cause |-> "",
   attempts |-> 0, q_email |-> <<>>, q_ref |-> <<>>, row |-> NoRow, rows |-> <<>>]

\* the submit handler with the exception swallowed: success is shown either way
Rendered_swallow(s, rec, exc) ==
  [session |-> s, op |-> "submit", status |-> "Confirmed", errors |-> <<>>,
   ref |-> rec.ref, cause |-> "", attempts |-> 1, q_email |-> <<>>, q_ref |-> <<>>,
   row |-> [id |-> 0], rows |-> <<>>]

\* what the submit handler renders after create_booking returned or raised:
\* st.success with the reference, or st.error with the exception
\* (attempts: the calls of create_booking the handler made)
Rendered(s, rec, exc) ==
  IF exc = ""
  THEN [NoView EXCEPT !.session = s, !.op = "submit", !.status = "Confirmed",
                      !.ref = rec.ref, !.attempts = 1]
  ELSE [NoView EXCEPT !.session = s, !.op = "submit", !.status = "Failed",
                      !.ref = rec.ref, !.cause = exc, !.attempts = 1]

\* no call of calc_price on its own
NoCall == [pkg_name |-> "", nights |-> 0, guests |-> 0, addons |-> <<>>, done |-> FALSE,
           subtotal |-> 0, tax |-> 0, total |-> 0]

Init ==
  /\ store = <<>>
  /\ now = 0
  /\ pc = [s \in Sessions |-> "idle"]
  /\ form = [s \in Sessions |-> DefaultForm]
  /\ record = [s \in Sessions |-> NoRecord]
  /\ view = NoView
  /\ calc = NoCall

\* time passes
Tick ==
  /\ now < MaxTime
  /\ now' = now + 1
  /\ UNCHANGED <<store, pc, form, record, view, calc>>

\* the user fills in the booking form (inside st.form: no rerun)
Edit(s, f) ==
  /\ pc[s] = "idle"
  /\ form' = [form EXCEPT ![s] = f]
  /\ UNCHANGED <<store, now, pc, record, view, calc>>

\* Confirm Reservation is pressed: the checks, and for a valid form the
\* reference and the record, up to the call of create_booking (a valid form
\* is taken only while the table and the pending creates stay within MaxRows)
Submit(s, uuid8) ==
  /\ pc[s] = "idle"
  /\ LET errors == Errors(form[s])
     IN  IF errors # <<>>
         THEN /\ view' = [NoView EXCEPT !.session = s, !.op = "submit",
                                          !.status = "Rejected", !.errors = errors]
              /\ UNCHANGED <<pc, record>>
         ELSE /\ Len(store) + Cardinality({t \in Sessions : pc[t] = "create"}) < MaxRows
              /\ record' = [record EXCEPT ![s] = BuildRecord(form[s], uuid8, now)]
              /\ pc' = [pc EXCEPT ![s] = "create"]
              /\ UNCHANGED view
  /\ UNCHANGED <<store, now, form, calc>>

\* create_booking(**record) inside try/except, and what is rendered after it
Insert(s, io_ok) ==
  /\ pc[s] = "create"
  /\ LET r == create_booking(store, record[s], io_ok)
     IN  /\ store' = r.db
         /\ view' = Rendered(s, record[s], r.exc)
  /\ pc' = [pc EXCEPT ![s] = "idle"]
  /\ record' = [record EXCEPT ![s] = NoRecord]
  /\ UNCHANGED <<now, form, calc>>

\* Find is pressed with email_q and ref_q typed in; an exception of SQLite in
\* find_booking (io_ok = FALSE) is not caught and ends the run
Lookup(s, email_q, ref_q, io_ok) ==
  /\ pc[s] = "idle"
  /\ view' =
       IF ~valid_email(email_q)
       THEN [NoView EXCEPT !.session = s, !.op = "find", !.status = "InvalidInput",
                           !.q_email = email_q, !.q_ref = ref_q]
       ELSE IF ~io_ok
       THEN [NoView EXCEPT !.session = s, !.op = "find", !.status = "Exception",
                           !.cause = "OperationalError"]
       ELSE LET res == find_booking(store, Lower(Strip(email_q)), Strip(ref_q))
            IN  [NoView EXCEPT !.session = s, !.op = "find",
                               !.status = IF res = NoRow THEN "NotFound" ELSE "Found",
                               !.q_email = email_q, !.q_ref = ref_q, !.row = res]
  /\ UNCHANGED <<store, now, pc, form, record, calc>>

\* Load Reservations is pressed with admin_pass typed in. get_conn() is
\* called outside the try: when SQLite cannot open the file (conn_ok = FALSE)
\* the exception is not caught and ends the run. A failing pd.read_sql
\* (io_ok = FALSE) is caught and leaves an empty frame
LoadReservations(s, admin_pass, conn_ok, io_ok) ==
  /\ pc[s] = "idle"
  /\ view' =
       IF admin_pass # "admin123"
       THEN [NoView EXCEPT !.session = s, !.op = "admin", !.status = "Unauthorized"]
       ELSE IF ~conn_ok
       THEN [NoView EXCEPT !.session = s, !.op = "admin", !.status = "Exception",
                           !.cause = "OperationalError"]
       ELSE LET df == IF io_ok THEN Reverse(store) ELSE <<>>
            IN  [NoView EXCEPT !.session = s, !.op = "admin",
                               !.status = IF df = <<>> THEN "Empty" ELSE "Listed",
                               !.rows = df]
  /\ UNCHANGED <<store, now, pc, form, record, calc>>

----------------------------------------------------------------------------
(* What the users type *)

NameBlank == <<" ", VT>>
NameAl == <<US, "A", "l", " ">>
NameBo == <<"B", "o">>

EmailUpper == <<"A", "@", "b", ".", "c", "o">>
EmailNewline == <<"a", "@", "b", ".", "c", "o", "\n">>
EmailOther == <<"z", "@", "y", ".", "i", "o">>
EmailNoDot == <<"a", "@", "b">>
EmailLeadingSpace == <<" ", "a", "@", "b", ".", "c", "o">>
EmailShout == <<"A", "@", "B", ".", "C", "O">>
EmailTrailingVT == <<"z", "@", "y", ".", "i", "o", VT>>

Phone7 == <<"1", "2", "3", "4", "5", "6", "7">>
Phone15 == <<"+", "9", "1", " ", "9", "8", "7", "6", "5", " ", "4", "3", "2", "1", "0">>
PhonePadded == <<" ", "1", "2", "3", "4", "5", US>>
PhoneShort == <<"1", "2", "3", "4", "5">>
PhoneLetters == <<"a", "b", "c", "1", "2", "3", "4">>

NotesPadded == <<FS, " ", "h", "i", GS, "\n">>

\* st.multiselect gives the chosen add-ons in the order they were chosen
AddonLists ==
  {<<>>, <<"Airport Pickup (One-way)">>, <<"Temple Darshan Guide">>,
   <<"Airport Pickup (One-way)", "Temple Darshan Guide">>,
   <<"Temple Darshan Guide", "Airport Pickup (One-way)">>}

\* the first eight characters of str(uuid.uuid4())
Uuid8s == {<<"0", "0", "0", "0", "0", "0", "0", "a">>,
           <<"0", "0", "0", "0", "0", "0", "0", "b">>,
           <<"1", "f", "0", "0", "0", "0", "0", "c">>}

\* the prefixes drawn in the single-session specification
Uuid8sForm == {<<"0", "0", "0", "0", "0", "0", "0", "a">>,
               <<"0", "0", "0", "0", "0", "0", "0", "b">>}

\* the widgets that no check reads: package, guests, add-ons, payment, notes
Stays ==
  {[package |-> "Eco", guests |-> MinGuests, addons |-> <<>>,
    pay_option |-> "Pay Later (reserve now)", notes |-> <<>>],
   [package |-> "Prime", guests |-> MaxGuests,
    addons |-> <<"Temple Darshan Guide", "Airport Pickup (One-way)">>,
    pay_option |-> "Mark as Paid (test)", notes |-> NotesPadded],
   [package |-> "Eco", guests |-> 2, addons |-> <<"Airport Pickup (One-way)">>,
    pay_option |-> "Mark as Paid (test)", notes |-> <<>>]}

\* st.date_input: check-in from today on, check-out from the day after tomorrow on
CheckIns == 0..MaxDay
CheckOuts == 2..MaxDay

MakeForm(n, e, p, ci, co, ag, st) ==
  [name |-> n, email |-> e, phone |-> p, package |-> st.package, guests |-> st.guests,
   check_in |-> ci, check_out |-> co, addons |-> st.addons,
   pay_option |-> st.pay_option, notes |-> st.notes, agree |-> ag]

\* the forms of the single-session specification
FormsWide ==
  {MakeForm(n, e, p, ci, co, ag, st) :
     n \in {<<>>, NameBlank, NameAl},
     e \in {EmailUpper, EmailNewline, EmailNoDot, EmailLeadingSpace},
     p \in {Phone7, PhonePadded, PhoneShort, PhoneLetters},
     ci \in CheckIns, co \in CheckOuts, ag \in BOOLEAN, st \in Stays}

\* the forms of the two-session specification
FormsSmall ==
  {MakeForm(NameAl, EmailUpper, Phone7, 0, 2, TRUE,
            [package |-> "Eco", guests |-> 2, addons |-> <<>>,
             pay_option |-> "Pay Later (reserve now)", notes |-> <<>>]),
   MakeForm(NameBo, EmailOther, Phone15, 1, MaxDay, TRUE,
            [package |-> "Prime", guests |-> MaxGuests,
             addons |-> <<"Airport Pickup (One-way)", "Temple Darshan Guide">>,
             pay_option |-> "Mark as Paid (test)", notes |-> NotesPadded]),
   MakeForm(NameBlank, EmailNoDot, Phone7, 2, 2, FALSE,
            [package |-> "Eco", guests |-> 2, addons |-> <<>>,
             pay_option |-> "Pay Later (reserve now)", notes |-> <<>>])}

\* what is typed into the Find tab
QueryEmails == {EmailShout, EmailOther, EmailTrailingVT}
QueryRefs == {<<>>, <<" ", RS>>, <<VT>> \o MakeRef(<<"0", "0", "0", "0", "0", "0", "0", "a">>) \o <<" ">>}

\* what is typed into the Find tab in the single-session specification
EmailShoutNewline == <<"A", "@", "B", ".", "c", "O", "\n">>
QueryEmailsForm == {EmailShout, EmailShoutNewline, EmailOther, EmailTrailingVT}
QueryRefsForm == {<<>>, <<RS>> \o MakeRef(<<"0", "0", "0", "0", "0", "0", "0", "a">>) \o <<"\n">>}

Passwords == {"admin123", "admin"}

\* the guest counts handed to the submit handler: it stores int(guests) as
\* it arrives, the range MinGuests .. MaxGuests is the number input's alone
GuestsHanded == {MinGuests - 1, MinGuests, MaxGuests, MaxGuests + 1}

\* submissions that pass the checks of name, email and phone, with any of
\* the dates, guest counts and agreement
FormsHanded ==
  {MakeForm(NameAl, EmailUpper, Phone7, ci, co, ag,
            [package |-> "Eco", guests |-> g, addons |-> <<>>,
             pay_option |-> "Pay Later (reserve now)", notes |-> <<>>]) :
     ci \in CheckIns, co \in CheckOuts, ag \in BOOLEAN, g \in GuestsHanded}

----------------------------------------------------------------------------
(* Specifications *)

\* two sessions booking, looking up and listing against one table, all
\* within one reading of the clock
Next ==
  \/ \E s \in Sessions : \E f \in FormsSmall : Edit(s, f)
  \/ \E s \in Sessions : \E u \in Uuid8s : Submit(s, u)
  \/ \E s \in Sessions : \E io_ok \in BOOLEAN : Insert(s, io_ok)
  \/ \E s \in Sessions : \E e \in QueryEmails : \E r \in QueryRefs :
        \E io_ok \in BOOLEAN : Lookup(s, e, r, io_ok)
  \/ \E s \in Sessions : \E p \in Passwords : \E conn_ok \in BOOLEAN :
        \E io_ok \in BOOLEAN : LoadReservations(s, p, conn_ok, io_ok)

Spec == Init /\ [][Next]_vars

\* one session with any of the wide forms filled in, while time passes
InitForm ==
  /\ store = <<>>
  /\ now = 0
  /\ pc = [s \in Sessions |-> "idle"]
  /\ \E f \in FormsWide : form = [s \in Sessions |-> IF s = "s1" THEN f ELSE DefaultForm]
  /\ record = [s \in Sessions |-> NoRecord]
  /\ view = NoView
  /\ calc = NoCall

NextForm ==
  \/ Tick
  \/ \E u \in Uuid8sForm : Submit("s1", u)
  \/ \E io_ok \in BOOLEAN : Insert("s1", io_ok)
  \/ \E e \in QueryEmailsForm : \E r \in QueryRefsForm : \E io_ok \in BOOLEAN :
        Lookup("s1", e, r, io_ok)

SpecForm == InitForm /\ [][NextForm]_vars

\* the submit handler on its own, run on the values it is handed
InitCaller ==
  /\ store = <<>>
  /\ now = 0
  /\ pc = [s \in Sessions |-> "idle"]
  /\ \E f \in FormsHanded : form = [s \in Sessions |-> IF s = "s1" THEN f ELSE DefaultForm]
  /\ record = [s \in Sessions |-> NoRecord]
  /\ view = NoView
  /\ calc = NoCall

NextCaller ==
  \/ \E u \in Uuid8sForm : Submit("s1", u)
  \/ \E io_ok \in BOOLEAN : Insert("s1", io_ok)

SpecCaller == InitCaller /\ [][NextCaller]_vars

\* calc_price called on its own
InitPrice ==
  /\ store = <<>>
  /\ now = 0
  /\ pc = [s \in Sessions |-> "idle"]
  /\ form = [s \in Sessions |-> DefaultForm]
  /\ record = [s \in Sessions |-> NoRecord]
  /\ view = NoView
  /\ \E p \in PackageNames : \E n \in (0 - NightsBelow)..MaxNights :
       \E g \in MinGuests..MaxGuests : \E a \in AddonLists :
         calc = [NoCall EXCEPT !.pkg_name = p, !.nights = n, !.guests = g, !.addons = a]

CallCalcPrice ==
  /\ ~calc.done
  /\ LET r == calc_price(calc.pkg_name, calc.nights, calc.guests, calc.addons)
     IN  calc' = [calc EXCEPT !.done = TRUE, !.subtotal = r.subtotal, !.tax = r.tax,
                              !.total = r.total]
  /\ UNCHANGED <<store, now, pc, form, record, view>>

NextPrice == CallCalcPrice

SpecPrice == InitPrice /\ [][NextPrice]_vars

----------------------------------------------------------------------------
(* Claims *)

Range(q) == {q[i] : i \in 1..Len(q)}
Rows == Range(store)

\* C1: no two rows of the bookings table have the same reference, whatever
\* the sessions submit and however their submissions interleave; and
\* create_booking with a reference that is in the table raises IntegrityError
\* and leaves the table as it was.
C1_UniqueReference ==
  /\ \A i \in 1..Len(store) : \A j \in 1..Len(store) :
       store[i].ref = store[j].ref => i = j
  /\ \A s \in Sessions :
       (pc[s] = "create" /\ \E i \in 1..Len(store) : store[i].ref = record[s].ref)
         => create_booking(store, record[s], TRUE) = [db |-> store, exc |-> "IntegrityError"]

\* a create on a reference that another submission had already stored was
\* refused, and the table holds that reference once
C1_Witness ==
  /\ view.op = "submit"
  /\ view.status = "Failed"
  /\ view.cause = "IntegrityError"
  /\ Cardinality({i \in 1..Len(store) : store[i].ref = view.ref}) = 1

\* C2: a valid submission whose create_booking raised IntegrityError (the
\* reference is taken) is retried with a new reference; it ends Failed only
\* after five colliding attempts.
C2_RetriesOnDuplicate ==
  (view.op = "submit" /\ view.status = "Failed" /\ view.cause = "IntegrityError")
    => view.attempts = 5

\* C3: a submit is Rejected exactly when one of the six checks fails, and
\* the Rejected result holds one message for each failing check.
C3_Failing(f) ==
  (IF \A i \in 1..Len(f.name) : f.name[i] \in Whitespace THEN {ErrName} ELSE {})
  \cup (IF ~valid_email(f.email) THEN {ErrEmail} ELSE {})
  \cup (IF ~valid_phone(f.phone) THEN {ErrPhone} ELSE {})
  \cup (IF ~(f.check_out > f.check_in) THEN {ErrDates} ELSE {})
  \cup (IF ~f.agree THEN {ErrAgree} ELSE {})
  \cup (IF f.package \notin PackageNames THEN {"unknown package"} ELSE {})

C3_AllFailuresReported ==
  (view.op = "submit" /\ view.session = "s1")
    => /\ (view.status = "Rejected") <=> (C3_Failing(form["s1"]) # {})
       /\ view.status = "Rejected"
            => /\ Range(view.errors) = C3_Failing(form["s1"])
               /\ Len(view.errors) = Cardinality(C3_Failing(form["s1"]))

\* blank name, invalid email and unticked agreement at once: three messages
C3_Witness ==
  /\ view.op = "submit"
  /\ view.status = "Rejected"
  /\ {ErrName, ErrEmail, ErrAgree} \subseteq Range(view.errors)
  /\ Len(view.errors) >= 3

\* C4: the bookings table only grows, by one row per confirmed submit; a
\* row once stored never changes, and a step that renders anything but a
\* confirmation leaves the table as it was.
C4_AppendOnly ==
  [][/\ store' # store
          => /\ store' = Append(store, store'[Len(store')])
             /\ view'.op = "submit"
             /\ view'.status = "Confirmed"
             /\ view'.ref = store'[Len(store')].ref
     /\ (view' # view /\ view'.status # "Confirmed") => store' = store]_vars

\* a lookup found a row and left both rows of the table in place
C4_Witness ==
  /\ Len(store) = 2
  /\ view.op = "find"
  /\ view.status = "Found"

\* C5: every stored row has nights >= 1, 1 <= guests <= 8 and check_out
\* after check_in, and the submit handler itself rejects a submission that
\* violates one of these, whatever values it is handed: such a submission
\* is never confirmed and nothing of it is stored.
C5_StayDatesValid ==
  \A r \in Rows : r.nights >= 1 /\ r.check_out > r.check_in

C5_GuestsInRange ==
  \A r \in Rows : r.guests >= 1 /\ r.guests <= 8

C5_Violating(f) ==
  \/ f.check_out <= f.check_in
  \/ f.guests < 1
  \/ f.guests > 8

C5_StoredStayIsValid ==
  /\ C5_StayDatesValid
  /\ C5_GuestsInRange
  /\ C5_Violating(form["s1"])
       => /\ store = <<>>
          /\ view.op = "submit" => view.status # "Confirmed"

\* C6: without add-ons and for nights >= 1, subtotal = per_night * nights,
\* tax is subtotal * 12 / 100 rounded to the nearest integer (a tie to the
\* even one) and total = subtotal + tax; Eco for 2 guests and 2 nights is
\* 15000, 1800, 16800.
C6_PriceWithoutAddons ==
  (calc.done /\ calc.nights >= 1 /\ calc.addons = <<>>)
    => /\ calc.subtotal = PACKAGES[calc.pkg_name].per_night * calc.nights
       /\ 100 * calc.tax - 12 * calc.subtotal <= 50
       /\ 12 * calc.subtotal - 100 * calc.tax <= 50
       /\ (100 * calc.tax - 12 * calc.subtotal \in {50, -50} => calc.tax % 2 = 0)
       /\ calc.total = calc.subtotal + calc.tax
       /\ (calc.pkg_name = "Eco" /\ calc.nights = 2 /\ calc.guests = 2)
            => (calc.subtotal = 15000 /\ calc.tax = 1800 /\ calc.total = 16800)

\* Eco, 2 guests, 2 nights, no add-ons has been priced
C6_Witness ==
  /\ calc.done
  /\ calc.pkg_name = "Eco"
  /\ calc.nights = 2
  /\ calc.guests = 2
  /\ calc.addons = <<>>
  /\ calc.total = 16800

\* C7: for nights <= 0 calc_price returns what it returns for nights = 1.
C7_NightsClampedToOne ==
  (calc.done /\ calc.nights <= 0)
    => LET one == calc_price(calc.pkg_name, 1, calc.guests, calc.addons)
       IN  /\ calc.subtotal = one.subtotal
           /\ calc.tax = one.tax
           /\ calc.total = one.total
           /\ calc.subtotal >= PACKAGES[calc.pkg_name].per_night

\* a negative number of nights has been priced, with add-ons
C7_Witness ==
  /\ calc.done
  /\ calc.nights < 0
  /\ calc.addons # <<>>
  /\ calc.subtotal = 10000

\* C8: find_booking returns the row with the highest id among the rows whose
\* email is the given one (and whose ref is the given one, when one is
\* given), and None exactly when there is no such row.
C8_Emails == {Lower(Strip(e)) : e \in QueryEmails}
C8_Refs == {Strip(r) : r \in QueryRefs}

C8_FindsNewestMatch ==
  \A e \in C8_Emails : \A r \in C8_Refs :
    LET res == find_booking(store, e, r)
        matching == {x \in Rows : x.email = e /\ (r # <<>> => x.ref = r)}
    IN  /\ (res = NoRow) <=> (matching = {})
        /\ matching # {}
             => /\ res \in matching
                /\ \A x \in matching : x.id <= res.id

\* a lookup by email alone returned the second of two rows with that email
C8_Witness ==
  /\ Len(store) = 2
  /\ store[1].email = store[2].email
  /\ view.op = "find"
  /\ view.status = "Found"
  /\ Strip(view.q_ref) = <<>>
  /\ view.row = store[2]

\* C9: once a submit of the form was confirmed, a lookup by the submitted
\* email in any letter case finds the row stored last, and that row equals
\* the submitted form field by field: name, phone and notes trimmed, email
\* trimmed and lowercased, add-ons joined in their order; right after the
\* confirmation it carries the reference the confirmation showed. (The
\* session submits one form, so no other email is stored in between.)
C9_CaseVariant(e, q) ==
  /\ Len(q) = Len(e)
  /\ \A i \in 1..Len(e) : LowerChar(q[i]) = LowerChar(e[i])

C9_Submitted(row, f) ==
  /\ row.name = Strip(f.name)
  /\ row.email = Lower(Strip(f.email))
  /\ row.phone = Strip(f.phone)
  /\ row.notes = Strip(f.notes)
  /\ row.package = f.package
  /\ row.check_in = f.check_in
  /\ row.check_out = f.check_out
  /\ row.nights = f.check_out - f.check_in
  /\ row.guests = f.guests
  /\ row.addons = Join(f.addons)
  /\ row.total = row.subtotal + row.tax
  /\ row.subtotal = PACKAGES[f.package].per_night * (f.check_out - f.check_in)
  /\ row.pay_status = (IF f.pay_option = "Pay Later (reserve now)" THEN "Pay Later" ELSE "Paid")
  /\ row.pay_option =
       (IF f.pay_option = "Pay Later (reserve now)" THEN "Pay Later" ELSE "Paid (test)")

C9_RoundTrip ==
  [][\A q \in QueryEmailsForm :
       (/\ store # <<>>
        /\ C9_CaseVariant(form["s1"].email, q)
        /\ Lookup("s1", q, <<>>, TRUE))
         => /\ view'.status = "Found"
            /\ view'.row = store[Len(store)]
            /\ (view.op = "submit" /\ view.status = "Confirmed") => view'.row.ref = view.ref
            /\ C9_Submitted(view'.row, form["s1"])]_vars

\* a form typed with capitals, padding and add-ons was found again by its
\* email typed in another case
C9_Witness ==
  /\ view.op = "find"
  /\ view.status = "Found"
  /\ view.q_email # form["s1"].email
  /\ C9_CaseVariant(form["s1"].email, view.q_email)
  /\ form["s1"].email # Lower(form["s1"].email)
  /\ form["s1"].name # Strip(form["s1"].name)
  /\ form["s1"].notes # Strip(form["s1"].notes)
  /\ Len(form["s1"].addons) = 2

\* C10: when create_booking raises, the submit ends Failed with the
\* exception shown and the table is as it was; it ends Confirmed only with
\* its row in the table under the reference shown.
C10_FailureSurfaced ==
  [][\A s \in Sessions :
       (pc[s] = "create" /\ pc'[s] = "idle")
         => /\ view'.session = s
            /\ view'.op = "submit"
            /\ view'.ref = record[s].ref
            /\ \/ /\ view'.status = "Failed"
                  /\ view'.cause \in {"IntegrityError", "OperationalError"}
                  /\ view'.cause = "IntegrityError"
                       => \E i \in 1..Len(store) : store[i].ref = record[s].ref
                  /\ store' = store
               \/ /\ view'.status = "Confirmed"
                  /\ \A i \in 1..Len(store) : store[i].ref # record[s].ref
                  /\ Len(store') = Len(store) + 1
                  /\ store'[Len(store')].ref = record[s].ref
                  /\ store'[Len(store')].email = record[s].email
                  /\ store'[Len(store')].name = record[s].name]_vars

\* a failing write was shown as a failure and left the table empty
C10_Witness ==
  /\ view.op = "submit"
  /\ view.status = "Failed"
  /\ view.cause = "OperationalError"
  /\ store = <<>>

====
